---------------------------- MODULE Spec2Model ----------------------------
(***************************************************************************)
(* A model of SimpleCV/Features/Features.py: the Feature class (lazy       *)
(* bounding extents, the relational predicates, the ray-casting            *)
(* point-in-polygon test) and the FeatureSet class (sorts, filters,        *)
(* distances).                                                             *)
(*                                                                         *)
(* Numbers.  Coordinates in the program are Python ints and floats.  A     *)
(* coordinate c is represented here by the integer c * Unit, so that       *)
(* non-integral coordinates (multiples of 1/Unit) exist and int() is a     *)
(* real truncation.  Sums, differences and comparisons commute with that   *)
(* scaling; products are worth Unit * Unit per unit.  float("infinity"),   *)
(* its negation and the IEEE not-a-number are the values INF, NINF, NAN.   *)
(*                                                                         *)
(* Outcomes.  A call ends by returning or by raising.  The outcome of a    *)
(* predicate is one of the strings "True", "False", "None" (returned) or   *)
(* "TypeError", "ZeroDivisionError" (raised).                              *)
(***************************************************************************)
EXTENDS Integers, Sequences, FiniteSets, TLC

VARIABLES
    feat,   \* feat[i]: the Feature objects (their fields)
    pc,     \* "idle": the caller is between calls; "returned": a call ended
            \* (with threads: pc[t], where thread t is)
    call,   \* the call that ended last: operation, receiver, argument, outcome
            \* (with threads: call[t], what thread t keeps)
    first   \* first[i]: what the first extents query on feat[i] returned

vars == <<feat, pc, call, first>>

-----------------------------------------------------------------------------
(* Bounds of the model *)

\* Feature points have coordinates -MaxC .. MaxC (in 1/Unit pixels).
MaxC == 1
\* A Feature has at most MaxPts boundary points.
MaxPts == 2
\* Coordinates are multiples of 1/Unit pixel.
Unit == 2
\* Circle descriptors have radius 0 .. MaxR, box descriptors width and
\* height 0 .. MaxW (in 1/Unit pixels).
MaxR == 2
MaxW == 2
\* A FeatureSet has at most MaxSet Features.
MaxSet == 3
\* The threads that query one Feature at the same time are 1 .. MaxThreads.
MaxThreads == 2

-----------------------------------------------------------------------------
(* Python numbers: ints, and the floats inf, -inf, nan *)

INF == 1000000
NINF == 0 - INF
NAN == INF + INF

IsNan(a) == a = NAN
IsInf(a) == a = INF \/ a = NINF
IsFinite(a) == ~IsNan(a) /\ ~IsInf(a)
Sign(a) == IF a > 0 THEN 1 ELSE IF a < 0 THEN 0 - 1 ELSE 0

Neg(a) == IF IsNan(a) THEN NAN ELSE 0 - a

\* a + b
Add(a, b) ==
    IF IsNan(a) \/ IsNan(b) THEN NAN
    ELSE IF IsInf(a) /\ IsInf(b) THEN (IF a = b THEN a ELSE NAN)
    ELSE IF IsInf(a) THEN a
    ELSE IF IsInf(b) THEN b
    ELSE a + b

\* a - b
Sub(a, b) == Add(a, Neg(b))

\* a * b
Mul(a, b) ==
    IF IsNan(a) \/ IsNan(b) THEN NAN
    ELSE IF IsInf(a) \/ IsInf(b)
         THEN (IF a = 0 \/ b = 0 THEN NAN
               ELSE IF Sign(a) * Sign(b) > 0 THEN INF ELSE NINF)
    ELSE a * b

\* a < b, a <= b, a == b: false as soon as one side is nan
Lt(a, b) == ~IsNan(a) /\ ~IsNan(b) /\ a < b
Le(a, b) == ~IsNan(a) /\ ~IsNan(b) /\ a <= b
Eq(a, b) == ~IsNan(a) /\ ~IsNan(b) /\ a = b

\* x <= float(num) / float(den), for den # 0
LeQuotient(x, num, den) ==
    IF IsNan(x) \/ IsNan(num) \/ IsNan(den) THEN FALSE
    ELSE IF IsInf(den) THEN (IF IsInf(num) THEN FALSE ELSE x <= 0)
    ELSE IF IsInf(num)
         THEN (IF Sign(num) * Sign(den) > 0 THEN TRUE ELSE x = NINF)
    ELSE IF IsInf(x) THEN x = NINF
    ELSE IF den > 0 THEN x * den <= num
    ELSE x * den >= num

\* np.min((a, b)), np.max((a, b))
Min2(a, b) == IF a < b THEN a ELSE b
Max2(a, b) == IF a > b THEN a ELSE b

\* int(c): truncation toward zero of the coordinate c (c * Unit here)
IntOf(v) ==
    IF v >= 0 THEN (v \div Unit) * Unit ELSE 0 - (((0 - v) \div Unit) * Unit)

-----------------------------------------------------------------------------
(* Values of the attribute boundingBox *)

\* Feature.boundingBox before _updateExtents ran: the class attribute, which
\* is the method boundingBox (the def rebinds the name of the list).
BoundMethod == [kind |-> "method", pts |-> <<>>]
\* a list of points
ListOf(ps) == [kind |-> "list", pts |-> ps]

-----------------------------------------------------------------------------
(* Feature._pointInsidePolygon *)

\* x-intersection test of one edge: the quotient is computed, then compared
EdgeCrossing(point, p1, p2, num, den) ==
    IF den = 0 THEN "raise"
    ELSE IF p1[1] = p2[1] \/ LeQuotient(point[1], num, den) THEN "count"
    ELSE "skip"

\* a turn of the loop that takes the lower end of the edge's y-span in
EdgeStepClosed(point, p1, p2) ==
    IF point[2] >= Min2(p1[2], p2[2])
       /\ point[2] <= Max2(p1[2], p2[2])
       /\ point[1] <= Max2(p1[1], p2[1])
       /\ p1[2] # p2[2]
    THEN EdgeCrossing(point, p1, p2,
                      Mul(Sub(point[2], p1[2]), Sub(p2[1], p1[1])),
                      Add(Sub(p2[2], p1[2]), p1[1]))
    ELSE "skip"

\* One turn of the loop over the edges: "count", "skip" or "raise".
\* test = float((point[1]-p1[1])*(p2[0]-p1[0]))/float(((p2[1]-p1[1])+p1[0]))
EdgeStep(point, p1, p2) ==
    IF point[2] > Min2(p1[2], p2[2])
       /\ point[2] <= Max2(p1[2], p2[2])
       /\ point[1] <= Max2(p1[1], p2[1])
       /\ p1[2] # p2[2]
    THEN EdgeCrossing(point, p1, p2,
                      Mul(Sub(point[2], p1[2]), Sub(p2[1], p1[1])),
                      Add(Sub(p2[2], p1[2]), p1[1]))
    ELSE "skip"

\* The loop "for i in range(1,N+1)" from turn i on: the number of crossings
\* counted, or -1 when a turn raises.  p1 is poly[(i-1)%N], p2 is poly[i%N].
RECURSIVE WalkEdges(_, _, _, _)
AfterEdge(e, point, poly, i, counter) ==
    IF e = "raise" THEN 0 - 1
    ELSE WalkEdges(point, poly, i + 1, IF e = "count" THEN counter + 1 ELSE counter)

WalkEdges(point, poly, i, counter) ==
    IF i > Len(poly) THEN counter
    ELSE AfterEdge(EdgeStep(point, poly[((i - 1) % Len(poly)) + 1],
                            poly[(i % Len(poly)) + 1]),
                   point, poly, i, counter)

\* counter % 2 == 0: outside
Parity(counter) ==
    IF counter < 0 THEN "ZeroDivisionError"
    ELSE IF counter % 2 = 0 THEN "False" ELSE "True"

\* _pointInsidePolygon that takes two vertices for a polygon
PointInsidePolygonOfTwo(point, polygon) ==
    IF polygon.kind = "method" THEN "TypeError"
    ELSE IF Len(polygon.pts) < 2 THEN "False"
    ELSE Parity(WalkEdges(point, Append(polygon.pts, polygon.pts[1]), 1, 0))

PointInsidePolygon(point, polygon) ==
    IF polygon.kind = "method" THEN "TypeError"
    ELSE IF Len(polygon.pts) < 3 THEN "False"
    ELSE Parity(WalkEdges(point, Append(polygon.pts, polygon.pts[1]), 1, 0))

-----------------------------------------------------------------------------
(* Feature: the fields, _updateExtents and the accessors *)

\* An attribute that may be None: <<>> is None, <<v>> is the value v.
None == <<>>
Some(v) == <<v>>
IsNone(o) == o = <<>>

\* A Feature fresh from its detector, with the boundary points ps.  scans
\* counts the runs of the loop of _updateExtents (an instrumentation, not a
\* field of the program).
NewFeature(ps) ==
    [points |-> ps,
     mMaxX |-> None, mMaxY |-> None, mMinX |-> None, mMinY |-> None,
     boundingBox |-> BoundMethod,
     scans |-> 0]

\* The loop of _updateExtents over points[i..]: acc = <<maxX, maxY, minX, minY>>
RECURSIVE ScanExtents(_, _, _)
ScanExtents(ps, i, acc) ==
    IF i > Len(ps) THEN acc
    ELSE LET p == ps[i]
             maxX == IF p[1] > acc[1] THEN p[1] ELSE acc[1]
             minX == IF p[1] < acc[3] THEN p[1] ELSE acc[3]
             maxY == IF p[2] > acc[2] THEN p[2] ELSE acc[2]
             minY == IF p[2] < acc[4] THEN p[2] ELSE acc[4]
         IN ScanExtents(ps, i + 1, <<maxX, maxY, minX, minY>>)

\* The Feature f once the loop has left e = <<maxX, maxY, minX, minY>>
WithExtents(f, e) ==
    [f EXCEPT !.mMaxX = Some(e[1]), !.mMaxY = Some(e[2]),
              !.mMinX = Some(e[3]), !.mMinY = Some(e[4]),
              !.boundingBox = ListOf(<< <<e[3], e[4]>>, <<e[3], e[2]>>,
                                        <<e[1], e[2]>>, <<e[1], e[4]>> >>),
              !.scans = f.scans + 1]

\* _updateExtents without its test of the four fields
UpdateExtentsUnguarded(f) ==
    WithExtents(f, ScanExtents(f.points, 1, <<NINF, NINF, INF, INF>>))

\* Feature._updateExtents
UpdateExtents(f) ==
    IF IsNone(f.mMaxX) \/ IsNone(f.mMaxY) \/ IsNone(f.mMinX) \/ IsNone(f.mMinY)
    THEN WithExtents(f, ScanExtents(f.points, 1, <<NINF, NINF, INF, INF>>))
    ELSE f

\* The Features fs after feature i ran _updateExtents
Upd(fs, i) == [fs EXCEPT ![i] = UpdateExtents(fs[i])]

\* extents() in the order (minX, minY, maxX, maxY)
ExtentsMinFirst(f) == <<f.mMinX[1], f.mMinY[1], f.mMaxX[1], f.mMaxY[1]>>

\* What the accessors return once _updateExtents ran (f is the Feature after it)
ExtentsOf(f) == <<f.mMaxX[1], f.mMaxY[1], f.mMinX[1], f.mMinY[1]>>
MinXOf(f) == f.mMinX[1]
MaxXOf(f) == f.mMaxX[1]
MinYOf(f) == f.mMinY[1]
MaxYOf(f) == f.mMaxY[1]
TopLeftCornerOf(f) == <<f.mMinX[1], f.mMinY[1]>>
BottomRightCornerOf(f) == <<f.mMaxX[1], f.mMaxY[1]>>
BottomLeftCornerOf(f) == <<f.mMinX[1], f.mMaxY[1]>>
TopRightCornerOf(f) == <<f.mMaxX[1], f.mMinY[1]>>

\* The accessors that take no argument and go through _updateExtents
Accessors ==
    {"extents", "minX", "maxX", "minY", "maxY", "topLeftCorner",
     "bottomRightCorner", "bottomLeftCorner", "topRightCorner"}

AccessorValue(op, f) ==
    CASE op = "extents" -> ExtentsOf(f)
      [] op = "minX" -> MinXOf(f)
      [] op = "maxX" -> MaxXOf(f)
      [] op = "minY" -> MinYOf(f)
      [] op = "maxY" -> MaxYOf(f)
      [] op = "topLeftCorner" -> TopLeftCornerOf(f)
      [] op = "bottomRightCorner" -> BottomRightCornerOf(f)
      [] op = "bottomLeftCorner" -> BottomLeftCornerOf(f)
      [] op = "topRightCorner" -> TopRightCornerOf(f)

\* The loops of width() and height() over points[i..], on coordinate k:
\* acc = <<max, min>>
RECURSIVE ScanSpan(_, _, _, _)
ScanSpan(ps, k, i, acc) ==
    IF i > Len(ps) THEN acc
    ELSE LET v == ps[i][k]
             mx == IF v > acc[1] THEN v ELSE acc[1]
             mn == IF v < acc[2] THEN v ELSE acc[2]
         IN ScanSpan(ps, k, i + 1, <<mx, mn>>)

\* max - min
SpanOf(s) == Sub(s[1], s[2])

\* width() as a count of pixel columns: max - min + 1
WidthInclusive(f) ==
    IF Len(f.points) <= 0 THEN 1 * Unit
    ELSE Add(SpanOf(ScanSpan(f.points, 1, 1, <<NINF, INF>>)), 1 * Unit)

\* Feature.width: 1 (one pixel) without points
Width(f) ==
    IF Len(f.points) <= 0 THEN 1 * Unit
    ELSE SpanOf(ScanSpan(f.points, 1, 1, <<NINF, INF>>))

\* height() without its test of len(self.points)
HeightOfScan(f) == SpanOf(ScanSpan(f.points, 2, 1, <<NINF, INF>>))

\* Feature.height
Height(f) ==
    IF Len(f.points) <= 0 THEN 1 * Unit
    ELSE SpanOf(ScanSpan(f.points, 2, 1, <<NINF, INF>>))

\* Feature.area, in 1/(Unit*Unit) square pixels
Area(f) == Mul(Width(f), Height(f))

-----------------------------------------------------------------------------
(* The values a caller passes as a region *)

\* a tuple of numbers: (x, y), (x, y, r), (x, y, w, h)
TupleOf(v) == [type |-> "tuple", elems |-> "number", v |-> v]
\* a tuple of (x, y) tuples
TupleOfPoints(v) == [type |-> "tuple", elems |-> "tuple", v |-> v]
\* a list of (x, y) tuples
ListOfPoints(v) == [type |-> "list", elems |-> "tuple", v |-> v]
\* a float or an int
NumberOf(v) == [type |-> "number", elems |-> "none", v |-> v]
\* the Feature feat[j]
FeatureRef(j) == [type |-> "Feature", elems |-> "none", v |-> j]

\* What a method hands back: its outcome and the Features as it leaves them
Result(out, fs) == [out |-> out, fs |-> fs]

PyBool(b) == IF b THEN "True" ELSE "False"
Raised(out) == out \in {"TypeError", "ZeroDivisionError"}
\* "not r" where r is the outcome of a call
PyNot(out) == IF Raised(out) THEN out ELSE PyBool(out \in {"False", "None"})

-----------------------------------------------------------------------------
(* Feature.above, below, right, left *)

\* the comparisons with <= and >= in place of < and >
CompareOrEqual(less, a, b) == IF less THEN PyBool(a <= b) ELSE PyBool(a >= b)

Compare(less, a, b) == IF less THEN PyBool(a < b) ELSE PyBool(a > b)

\* self.maxY() < object.minY(), on the Features fs2 after both accessors ran
AgainstFeature(fs2, self, other, mine, theirs, less) ==
    Result(Compare(less, AccessorValue(mine, fs2[self]),
                   AccessorValue(theirs, fs2[other])), fs2)

\* self.maxY() < v, on the Features fs1 after the accessor ran
AgainstValue(fs1, self, mine, v, less) ==
    Result(Compare(less, AccessorValue(mine, fs1[self]), v), fs1)

\* self.maxY() < object[1] where object[1] is itself a tuple: Python 2 orders
\* every number before every tuple
AgainstTuple(fs1, less) == Result(PyBool(less), fs1)

\* the four with an else branch that returns False
DirectionalOrFalse(fs, self, object, mine, theirs, k, less) ==
    IF object.type = "Feature"
    THEN AgainstFeature(Upd(Upd(fs, self), object.v), self, object.v,
                        mine, theirs, less)
    ELSE IF object.type = "tuple"
    THEN IF object.elems = "number"
         THEN AgainstValue(Upd(fs, self), self, mine, object.v[k], less)
         ELSE AgainstTuple(Upd(fs, self), less)
    ELSE IF object.type = "number"
    THEN AgainstValue(Upd(fs, self), self, mine, object.v, less)
    ELSE Result("False", fs)

\* The shared shape of the four: mine is the accessor read on self ("maxY"),
\* theirs the one read on another Feature, k the index read in a tuple, and
\* less says whether the test is mine < theirs (else mine > theirs).
Directional(fs, self, object, mine, theirs, k, less) ==
    IF object.type = "Feature"
    THEN AgainstFeature(Upd(Upd(fs, self), object.v), self, object.v,
                        mine, theirs, less)
    ELSE IF object.type = "tuple"
    THEN IF object.elems = "number"
         THEN AgainstValue(Upd(fs, self), self, mine, object.v[k], less)
         ELSE AgainstTuple(Upd(fs, self), less)
    ELSE IF object.type = "number"
    THEN AgainstValue(Upd(fs, self), self, mine, object.v, less)
    \* warnings.warn(...); return None
    ELSE Result("None", fs)

Above(fs, self, object) == Directional(fs, self, object, "maxY", "minY", 2, TRUE)
Below(fs, self, object) == Directional(fs, self, object, "minY", "maxY", 2, FALSE)
Right(fs, self, object) == Directional(fs, self, object, "minX", "maxX", 1, FALSE)
Left(fs, self, object) == Directional(fs, self, object, "maxX", "minX", 1, TRUE)

-----------------------------------------------------------------------------
(* Feature.contains, overlaps, isContainedWithin and their negations *)

\* The loops that stop at the first outcome that decides: b is reached only
\* if a returned true (PyAnd), only if a returned false (PyOr); a raise of
\* a ends the call.
PyAnd(a, b) == IF a = "True" THEN b ELSE a
PyOr(a, b) == IF a = "False" THEN b ELSE a

\* (x-p[0])*(x-p[0]) + (y-p[1])*(y-p[1])
SquaredDistance(x, y, p) ==
    Add(Mul(Sub(x, p[1]), Sub(x, p[1])), Mul(Sub(y, p[2]), Sub(y, p[2])))

\* (int(p[0]), int(p[1]))
IntPoint(p) == <<IntOf(p[1]), IntOf(p[2])>>

\* the loop of contains over other.points[i..] without the int() of p2
RECURSIVE ContainsRawPointsFrom(_, _, _)
ContainsRawPointsFrom(bounds, ps, i) ==
    IF i > Len(ps) THEN "True"
    ELSE PyAnd(PointInsidePolygon(ps[i], bounds),
               ContainsRawPointsFrom(bounds, ps, i + 1))

\* contains, a Feature: the loop over other.points[i..]
RECURSIVE ContainsPointsFrom(_, _, _)
ContainsPointsFrom(bounds, ps, i) ==
    IF i > Len(ps) THEN "True"
    ELSE PyAnd(PointInsidePolygon(IntPoint(ps[i]), bounds),
               ContainsPointsFrom(bounds, ps, i + 1))

\* contains, a polygon: the loop over other[i..]
RECURSIVE ContainsPolygonFrom(_, _, _)
ContainsPolygonFrom(bounds, ps, i) ==
    IF i > Len(ps) THEN "True"
    ELSE PyAnd(PointInsidePolygon(ps[i], bounds),
               ContainsPolygonFrom(bounds, ps, i + 1))

\* contains, a circle: the loop over the corners bounds[i..]
RECURSIVE ContainsCircleFrom(_, _, _, _, _)
ContainsCircleFrom(x, y, rr, corners, i) ==
    IF i > Len(corners) THEN "True"
    ELSE IF Lt(SquaredDistance(x, y, corners[i]), rr) THEN "False"
    ELSE ContainsCircleFrom(x, y, rr, corners, i + 1)

\* the box test with strict comparisons
InsideBoxStrict(f, box) ==
    /\ MaxXOf(f) < box[1] + box[3]
    /\ MinXOf(f) > box[1]
    /\ MaxYOf(f) < box[2] + box[4]
    /\ MinYOf(f) > box[2]

\* the box test of contains and isContainedWithin, on the Feature after
\* maxX() ran _updateExtents
InsideBox(f, box) ==
    /\ MaxXOf(f) <= box[1] + box[3]
    /\ MinXOf(f) >= box[1]
    /\ MaxYOf(f) <= box[2] + box[4]
    /\ MinYOf(f) >= box[2]

BoxTest(fs1, self, box) == Result(PyBool(InsideBox(fs1[self], box)), fs1)

\* Feature.contains
Contains(fs, self, other) ==
    LET bounds == fs[self].boundingBox IN
    IF other.type = "Feature"
    THEN Result(ContainsPointsFrom(bounds, fs[other.v].points, 1), fs)
    ELSE IF other.type = "tuple" /\ Len(other.v) = 2
    THEN Result(PointInsidePolygon(other.v, bounds), fs)
    ELSE IF other.type = "tuple" /\ Len(other.v) = 3
    THEN IF other.elems = "tuple" \/ bounds.kind = "method"
         THEN Result("TypeError", fs)
         ELSE Result(ContainsCircleFrom(other.v[1], other.v[2],
                                        other.v[3] * other.v[3], bounds.pts, 1), fs)
    ELSE IF other.type = "tuple" /\ Len(other.v) = 4 /\ other.elems = "number"
    THEN BoxTest(Upd(fs, self), self, other.v)
    ELSE IF other.type = "list" /\ Len(other.v) >= 4
    THEN Result(ContainsPolygonFrom(bounds, other.v, 1), fs)
    ELSE Result("False", fs)

\* overlaps, a Feature or a polygon: the loop over the points ps[i..]
RECURSIVE OverlapsPointsFrom(_, _, _)
OverlapsPointsFrom(bounds, ps, i) ==
    IF i > Len(ps) THEN "False"
    ELSE PyOr(PointInsidePolygon(ps[i], bounds),
              OverlapsPointsFrom(bounds, ps, i + 1))

\* overlaps, a circle: the loop over the corners bounds[i..]
RECURSIVE OverlapsCircleFrom(_, _, _, _, _)
OverlapsCircleFrom(x, y, rr, corners, i) ==
    IF i > Len(corners) THEN "False"
    ELSE IF Lt(SquaredDistance(x, y, corners[i]), rr) THEN "True"
    ELSE OverlapsCircleFrom(x, y, rr, corners, i + 1)

\* (x, y), (x+w, y), (x, y+h), (x+w, y+h)
BoxCorners(box) ==
    << <<box[1], box[2]>>, <<box[1] + box[3], box[2]>>,
       <<box[1], box[2] + box[4]>>, <<box[1] + box[3], box[2] + box[4]>> >>

\* overlaps, a box: self.contains(corner) or ..., from the i-th corner on
RECURSIVE OverlapsCornersFrom(_, _, _, _)
OverlapsCornersFrom(fs, self, corners, i) ==
    IF i > Len(corners) THEN "False"
    ELSE PyOr(Contains(fs, self, TupleOf(corners[i])).out,
              OverlapsCornersFrom(fs, self, corners, i + 1))

\* Feature.overlaps
Overlaps(fs, self, other) ==
    LET bounds == fs[self].boundingBox IN
    IF other.type = "Feature"
    THEN IF fs[other.v].boundingBox.kind = "method"
         THEN Result("TypeError", fs)
         ELSE Result(OverlapsPointsFrom(bounds, fs[other.v].boundingBox.pts, 1), fs)
    ELSE IF other.type = "tuple" /\ Len(other.v) = 2
    THEN Result(PointInsidePolygon(other.v, bounds), fs)
    ELSE IF other.type = "tuple" /\ Len(other.v) = 3 /\ other.elems # "tuple"
    THEN IF bounds.kind = "method"
         THEN Result("TypeError", fs)
         ELSE Result(OverlapsCircleFrom(other.v[1], other.v[2],
                                        other.v[3] * other.v[3], bounds.pts, 1), fs)
    ELSE IF other.type = "tuple" /\ Len(other.v) = 4 /\ other.elems = "number"
    THEN Result(OverlapsCornersFrom(fs, self, BoxCorners(other.v), 1), fs)
    ELSE IF other.type = "list" /\ Len(other.v) >= 3
    THEN Result(OverlapsPointsFrom(bounds, other.v, 1), fs)
    ELSE Result("False", fs)

\* isContainedWithin, a circle: the loop over the corners bounds[i..]
RECURSIVE WithinCircleFrom(_, _, _, _, _)
WithinCircleFrom(x, y, rr, corners, i) ==
    IF i > Len(corners) THEN "True"
    ELSE IF Lt(rr, SquaredDistance(x, y, corners[i])) THEN "False"
    ELSE WithinCircleFrom(x, y, rr, corners, i + 1)

\* isContainedWithin, a polygon: the loop over the corners bounds[i..]
RECURSIVE WithinPolygonFrom(_, _, _)
WithinPolygonFrom(corners, polygon, i) ==
    IF i > Len(corners) THEN "True"
    ELSE PyAnd(PointInsidePolygon(corners[i], polygon),
               WithinPolygonFrom(corners, polygon, i + 1))

\* Feature.isContainedWithin
IsContainedWithin(fs, self, other) ==
    LET bounds == fs[self].boundingBox IN
    IF other.type = "Feature"
    THEN Contains(fs, other.v, FeatureRef(self))
    ELSE IF other.type = "tuple" /\ Len(other.v) = 3
    THEN IF other.elems = "tuple" \/ bounds.kind = "method"
         THEN Result("TypeError", fs)
         ELSE Result(WithinCircleFrom(other.v[1], other.v[2],
                                      other.v[3] * other.v[3], bounds.pts, 1), fs)
    ELSE IF other.type = "tuple" /\ Len(other.v) = 4 /\ other.elems = "number"
    THEN BoxTest(Upd(fs, self), self, other.v)
    ELSE IF other.type = "list" /\ Len(other.v) > 2
    THEN IF bounds.kind = "method"
         THEN Result("TypeError", fs)
         ELSE Result(WithinPolygonFrom(bounds.pts, ListOf(other.v), 1), fs)
    ELSE Result("False", fs)

Negated(r) == Result(PyNot(r.out), r.fs)

\* Feature.doesNotContain, doesNotOverlap, isNotContainedWithin
DoesNotContain(fs, self, other) == Negated(Contains(fs, self, other))
DoesNotOverlap(fs, self, other) == Negated(Overlaps(fs, self, other))
IsNotContainedWithin(fs, self, shape) == Negated(IsContainedWithin(fs, self, shape))

-----------------------------------------------------------------------------
(* Feature.boundingBox(): the call of the attribute boundingBox *)

\* The method runs while the attribute still is the method; once
\* _updateExtents has stored the list of corners under the same name, the
\* call is a call of a list.
ReturnBoundingBox(fs1, self) == Result(fs1[self].boundingBox.pts, fs1)

BoundingBoxCall(fs, self) ==
    IF fs[self].boundingBox.kind = "method"
    THEN ReturnBoundingBox(Upd(fs, self), self)
    ELSE Result("TypeError", fs)

-----------------------------------------------------------------------------
(* The inputs of the model *)

Coord == (0 - MaxC) .. MaxC
Grid == Coord \X Coord

\* the sequences over S of length at most n
SeqUpTo(S, n) == UNION {[1 .. k -> S] : k \in 0 .. n}

\* The boundary points a detector may give a Feature
PointLists == SeqUpTo(Grid, MaxPts)

\* points = [(0,0),(0,4),(4,4),(4,0)]
ExamplePoints ==
    << <<0, 0>>, <<0, 4 * Unit>>, <<4 * Unit, 4 * Unit>>, <<4 * Unit, 0>> >>

\* A few points of the grid, for the Features of the specifications that
\* vary the region instead: corners of the grid, its centre, two points that
\* span a box left of the y axis
Pool ==
    {<<0 - MaxC, 0 - MaxC>>, <<MaxC, MaxC>>, <<0, 0>>, <<0, MaxC>>, <<0 - MaxC, 0>>}
PoolLists == SeqUpTo(Pool, MaxPts)

\* Regions: points, circles, boxes, polygons
PointArgs == {TupleOf(p) : p \in Grid}
CircleArgs == {TupleOf(<<p[1], p[2], r>>) : p \in Grid, r \in 0 .. MaxR}
BoxArgs == {TupleOf(<<p[1], p[2], w, h>>) : p \in Grid, w \in 0 .. MaxW, h \in 0 .. MaxW}
SquareAround ==
    << <<0 - MaxC, 0 - MaxC>>, <<0 - MaxC, MaxC>>, <<MaxC, MaxC>>, <<MaxC, 0 - MaxC>> >>
TriangleAround == << <<0 - MaxC, 0 - MaxC>>, <<MaxC, 0 - MaxC>>, <<0, MaxC>> >>
PolygonArgs ==
    {ListOfPoints(SquareAround), ListOfPoints(TriangleAround),
     TupleOfPoints(TriangleAround), ListOfPoints(SubSeq(SquareAround, 1, 2))}
\* the regions that are tuples of numbers
TupleArgs == PointArgs \cup CircleArgs \cup BoxArgs

\* What above, below, left and right are given besides: a number
NumberArgs == {NumberOf(0)}

-----------------------------------------------------------------------------
(* The calls *)

\* A call that ended: pre is the Features as the call found them
Call(op, self, arg, out, val, pre) ==
    [op |-> op, self |-> self, arg |-> arg, out |-> out, val |-> val, pre |-> pre]
NoCall == Call("none", 0, NumberOf(0), "none", 0, <<>>)

Ids == DOMAIN feat

\* The call op(arg) on feat[i] ends with outcome out and value val, and
\* leaves the Features fs
Ends(op, i, arg, out, val, fs) ==
    /\ feat' = fs
    /\ call' = Call(op, i, arg, out, val, feat)
    /\ pc' = "returned"

AccessorEnds(op, i, fs1) ==
    /\ Ends(op, i, NumberOf(0), "ok", AccessorValue(op, fs1[i]), fs1)
    /\ first' = IF IsNone(first[i])
                THEN [first EXCEPT ![i] = Some(ExtentsOf(fs1[i]))]
                ELSE first

\* extents(), minX(), ..., topRightCorner() on feat[i]
CallAccessor(i, op) ==
    /\ pc = "idle"
    /\ AccessorEnds(op, i, Upd(feat, i))

BoundingBoxEnds(i, r) ==
    IF r.out = "TypeError"
    THEN Ends("boundingBox", i, NumberOf(0), "TypeError", 0, r.fs)
    ELSE Ends("boundingBox", i, NumberOf(0), "ok", r.out, r.fs)

\* boundingBox() on feat[i]
CallBoundingBox(i) ==
    /\ pc = "idle"
    /\ BoundingBoxEnds(i, BoundingBoxCall(feat, i))
    /\ UNCHANGED first

SizeValue(op, f) ==
    CASE op = "width" -> Width(f)
      [] op = "height" -> Height(f)
      [] op = "area" -> Area(f)

\* width(), height(), area() on feat[i]
CallSize(i, op) ==
    /\ pc = "idle"
    /\ Ends(op, i, NumberOf(0), "ok", SizeValue(op, feat[i]), feat)
    /\ UNCHANGED first

Directions == {"above", "below", "left", "right"}
Relations ==
    {"contains", "overlaps", "isContainedWithin",
     "doesNotContain", "doesNotOverlap", "isNotContainedWithin"}

Predicate(op, fs, self, arg) ==
    CASE op = "above" -> Above(fs, self, arg)
      [] op = "below" -> Below(fs, self, arg)
      [] op = "left" -> Left(fs, self, arg)
      [] op = "right" -> Right(fs, self, arg)
      [] op = "contains" -> Contains(fs, self, arg)
      [] op = "overlaps" -> Overlaps(fs, self, arg)
      [] op = "isContainedWithin" -> IsContainedWithin(fs, self, arg)
      [] op = "doesNotContain" -> DoesNotContain(fs, self, arg)
      [] op = "doesNotOverlap" -> DoesNotOverlap(fs, self, arg)
      [] op = "isNotContainedWithin" -> IsNotContainedWithin(fs, self, arg)

\* feat[i].op(arg), op a relational predicate
PredicateEnds(op, i, arg, r) == Ends(op, i, arg, r.out, 0, r.fs)

CallPredicate(i, op, arg) ==
    /\ pc = "idle"
    /\ PredicateEnds(op, i, arg, Predicate(op, feat, i, arg))
    /\ UNCHANGED first

\* _pointInsidePolygon(point, polygon); the value kept of the call is the
\* number of warnings it issued
CallPointInsidePolygon(point, polygon) ==
    /\ pc = "idle"
    /\ Ends("_pointInsidePolygon", 0, [point |-> point, polygon |-> polygon],
            PointInsidePolygon(point, ListOf(polygon)),
            IF Len(polygon) < 3 THEN 1 ELSE 0, feat)
    /\ UNCHANGED first

\* The caller has the outcome and goes on
\* a Feature that drops its extents when its points are assigned
AssignPointsInvalidating(i, ps) ==
    /\ pc = "idle"
    /\ feat' = [feat EXCEPT ![i] = NewFeature(ps)]
    /\ UNCHANGED <<pc, call, first>>

\* feat[i].points = ps, by the code that owns the Feature: points is a plain
\* attribute, and nothing else of the Feature changes with it
AssignPoints(i, ps) ==
    /\ pc = "idle"
    /\ feat' = [feat EXCEPT ![i].points = ps]
    /\ UNCHANGED <<pc, call, first>>

Return ==
    /\ pc = "returned"
    /\ pc' = "idle"
    /\ call' = NoCall
    /\ UNCHANGED <<feat, first>>

-----------------------------------------------------------------------------
(* FeatureSet: a list of Features.  Here feat is the list, and what a method
   returns as a new FeatureSet is the list of the positions in feat of the
   Features it holds, in its order. *)

\* The size of the image the Features of a set come from, in pixels
ImageSize == <<2 * MaxC, 2 * MaxC>>

\* A Feature as a detector leaves it: NewFeature, and the attributes that the
\* detector sets or that its subclass computes.  The k-th kind of Feature
\* sits at (k, MaxC - k), has angle k, length MaxC - k + 1 and the colour
\* (k, 0, MaxC - k) under it.
Member(ps, k) ==
    NewFeature(ps) @@
    [x |-> k * Unit, y |-> (MaxC - k) * Unit,
     angle |-> k, length |-> (MaxC - k) + 1,
     meanColor |-> <<k, 0, MaxC - k>>,
     image |-> ImageSize]

\* spsd.euclidean(p, q), squared (the square root keeps order and ties)
SquaredEuclidean(p, q) ==
    LET d(i) == (p[i] - q[i]) * (p[i] - q[i])
    IN IF Len(p) = 2 THEN d(1) + d(2) ELSE d(1) + d(2) + d(3)

\* The point (-1, -1) that stands for "no point given"
DefaultPoint == <<0 - Unit, 0 - Unit>>

\* np.array(self.image.size()) / 2, a division of integers
ImageCenter(f) == <<(f.image[1] \div 2) * Unit, (f.image[2] \div 2) * Unit>>
\* self[0].image.size()
ImageCorner(f) == <<f.image[1] * Unit, f.image[2] * Unit>>

\* Feature.distanceFrom(point), squared
DistanceFrom(f, point) ==
    IF point[1] = 0 - Unit \/ point[2] = 0 - Unit
    THEN SquaredEuclidean(ImageCenter(f), <<f.x, f.y>>)
    ELSE SquaredEuclidean(point, <<f.x, f.y>>)

\* Feature.colorDistance(color), squared
ColorDistance(f, color) == SquaredEuclidean(color, f.meanColor)

\* abs(a)
Abs(a) == IF a < 0 THEN 0 - a ELSE a

SortOps ==
    {"sortArea", "sortDistance", "sortAngle", "sortLength", "sortColorDistance"}

\* The key = lambda f: ... of each sort, given the argument of the sort
SortKey(op, f, arg) ==
    CASE op = "sortArea" -> Area(f)
      [] op = "sortDistance" -> DistanceFrom(f, arg)
      [] op = "sortAngle" -> Abs(f.angle - arg)
      [] op = "sortLength" -> f.length
      [] op = "sortColorDistance" -> ColorDistance(f, arg)

\* sorted(): acc with j put after its first c entries
InsertAt(acc, j, c) == SubSeq(acc, 1, c) \o <<j>> \o SubSeq(acc, c + 1, Len(acc))

\* a sort that puts an element before those of equal key
RECURSIVE SortedUnstableFrom(_, _, _)
SortedUnstableFrom(keys, j, acc) ==
    IF j > Len(keys) THEN acc
    ELSE SortedUnstableFrom(keys, j + 1,
             InsertAt(acc, j,
                 Cardinality({m \in DOMAIN acc : keys[acc[m]] < keys[j]})))

\* sorted(self, key = ...): ascending and stable.  keys[j] is the key of
\* self[j]; element j goes after every element taken so far whose key is
\* not greater.
RECURSIVE SortedFrom(_, _, _)
SortedFrom(keys, j, acc) ==
    IF j > Len(keys) THEN acc
    ELSE SortedFrom(keys, j + 1,
             InsertAt(acc, j,
                 Cardinality({m \in DOMAIN acc : keys[acc[m]] <= keys[j]})))

\* FeatureSet.sortArea, sortDistance, sortAngle, sortLength, sortColorDistance
SortBy(op, fs, arg) ==
    SortedFrom([j \in DOMAIN fs |-> SortKey(op, fs[j], arg)], 1, <<>>)

\* What a method of FeatureSet hands back: outcome, value, the Features
SetResult(out, val, fs) == [out |-> out, val |-> val, fs |-> fs]

\* FeatureSet.distanceFrom(point): the distances (squared) of the Features
\* from point, or from self[0].image.size() when no point is given
SetDistanceFrom(fs, point) ==
    IF point[1] = 0 - Unit \/ (point[2] = 0 - Unit /\ Len(fs) # 0)
    THEN IF Len(fs) = 0
         THEN SetResult("IndexError", <<>>, fs)
         ELSE SetResult("ok",
                        [j \in DOMAIN fs |->
                            SquaredEuclidean(<<fs[j].x, fs[j].y>>, ImageCorner(fs[1]))],
                        fs)
    ELSE IF Len(fs) = 0
    THEN SetResult("ValueError", <<>>, fs)
    ELSE SetResult("ok",
                   [j \in DOMAIN fs |-> SquaredEuclidean(<<fs[j].x, fs[j].y>>, point)],
                   fs)

\* The positions i .. n whose entry of the mask is true
RECURSIVE MaskedFrom(_, _, _)
MaskedFrom(mask, n, i) ==
    IF i > n THEN <<>>
    ELSE IF i <= Len(mask) /\ mask[i]
    THEN <<i>> \o MaskedFrom(mask, n, i + 1)
    ELSE MaskedFrom(mask, n, i + 1)

\* the mask taken as a list of positions 0 and 1 (an integer index array)
FilterByIndex(fs, mask, legacy) ==
    IF Len(fs) = 0 /\ Len(mask) > 0 THEN SetResult("IndexError", <<>>, fs)
    ELSE IF \E i \in DOMAIN mask : mask[i] /\ Len(fs) < 2
    THEN SetResult("IndexError", <<>>, fs)
    ELSE SetResult("ok", [i \in DOMAIN mask |-> IF mask[i] THEN 2 ELSE 1], fs)

\* FeatureSet.filter(filterarray): np.array(self)[np.array(filterarray)] with
\* a boolean array.  The code does not compare the lengths; with lengths
\* that differ, NumPy before 1.13 (legacy) takes the missing entries as
\* false and refuses only a true entry past the end, later NumPy raises
\* IndexError.
FilterByMask(fs, mask, legacy) ==
    IF Len(mask) = Len(fs)
    THEN SetResult("ok", MaskedFrom(mask, Len(fs), 1), fs)
    ELSE IF ~legacy \/ \E i \in DOMAIN mask : i > Len(fs) /\ mask[i]
    THEN SetResult("IndexError", <<>>, fs)
    ELSE SetResult("ok", MaskedFrom(mask, Len(fs), 1), fs)

\* The Feature predicate behind each geometric filter of FeatureSet
FilterOps == {"inside", "outside", "overlaps", "above", "below", "left", "right"}
FilterPredicate(op) ==
    CASE op = "inside" -> "isContainedWithin"
      [] op = "outside" -> "isNotContainedWithin"
      [] op = "overlaps" -> "overlaps"
      [] op = "above" -> "above"
      [] op = "below" -> "below"
      [] op = "left" -> "left"
      [] op = "right" -> "right"

\* for f in self: if( f.op(region) ): fs.append(f), from the i-th Feature
\* on; kept is the new FeatureSet so far.  A predicate that raises ends the
\* loop and the call.
RECURSIVE FilterFrom(_, _, _, _, _)
FilterStep(op, region, i, kept, r) ==
    IF Raised(r.out) THEN SetResult(r.out, <<>>, r.fs)
    ELSE FilterFrom(op, r.fs, region, i + 1,
                    IF r.out = "True" THEN Append(kept, i) ELSE kept)

FilterFrom(op, fs, region, i, kept) ==
    IF i > Len(fs) THEN SetResult("ok", kept, fs)
    ELSE FilterStep(op, region, i, kept, Predicate(FilterPredicate(op), fs, i, region))

\* FeatureSet.inside, outside, overlaps, above, below, left, right
FilterRegion(op, fs, region) == FilterFrom(op, fs, region, 1, <<>>)

\* The arguments of the methods of FeatureSet
MaskOf(m) == [type |-> "mask", elems |-> "bool", v |-> m]
Masks == {MaskOf(m) : m \in SeqUpTo(BOOLEAN, MaxSet + 1)}
SortPoints == {DefaultPoint, <<0, 0>>, <<MaxC * Unit, MaxC * Unit>>}
SortAngles == 0 .. MaxC
SortColors == {<<0, 0, 0>>, <<MaxC, 0, 0>>}
SetRegions ==
    {TupleOf(<<0, 0>>), TupleOf(<<0, 0, MaxR>>),
     TupleOf(<<0 - MaxC, 0 - MaxC, MaxW, MaxW>>)}

SetEnds(op, arg, r) == Ends(op, 0, arg, r.out, r.val, r.fs) /\ UNCHANGED first

\* feat.sortArea(), feat.sortLength(), feat.sortAngle(theta),
\* feat.sortDistance(point), feat.sortColorDistance(color)
CallSort(op, arg) ==
    /\ pc = "idle"
    /\ SetEnds(op, arg, SetResult("ok", SortBy(op, feat, arg.v), feat))

\* feat.distanceFrom(point)
CallSetDistanceFrom(point) ==
    /\ pc = "idle"
    /\ SetEnds("distanceFrom", TupleOf(point), SetDistanceFrom(feat, point))

\* feat.filter(mask)
CallFilter(mask, legacy) ==
    /\ pc = "idle"
    /\ SetEnds("filter", mask, FilterByMask(feat, mask.v, legacy))

\* feat.inside(region), ..., feat.right(region)
CallFilterRegion(op, region) ==
    /\ pc = "idle"
    /\ SetEnds(op, region, FilterRegion(op, feat, region))

-----------------------------------------------------------------------------
(* Threads on one Feature.  Each thread calls an accessor of feat[1] once;
   the steps of _updateExtents of the threads interleave, one assignment or
   one turn of the loop at a time.  pc[t] is where thread t is: "idle",
   "init" (assigning the four infinities, call[t].k of them done), "scan"
   (in the loop, at points[call[t].k], or past it), "read" (at the return
   of the accessor), "returned". *)

\* What thread t keeps: the accessor it called, its counter, the value it
\* returned, and (an instrumentation) whether another thread was inside
\* _updateExtents when it returned
Local(op, k, val, busy) == [op |-> op, k |-> k, val |-> val, busy |-> busy]

\* Thread t calls an accessor and _updateExtents tests the four fields
Enter(t) ==
    /\ pc[t] = "idle"
    /\ pc' = [pc EXCEPT ![t] =
                 IF IsNone(feat[1].mMaxX) \/ IsNone(feat[1].mMaxY)
                    \/ IsNone(feat[1].mMinX) \/ IsNone(feat[1].mMinY)
                 THEN "init" ELSE "read"]
    /\ call' = [call EXCEPT ![t] = Local("none", 0, 0, FALSE)]
    /\ UNCHANGED <<feat, first>>

\* self.mMaxX = float("-infinity") ... self.mMinY = float("infinity"), one
\* assignment a step
Sentinel(t) ==
    /\ pc[t] = "init"
    /\ feat' = [feat EXCEPT ![1] =
                   CASE call[t].k = 0 -> [@ EXCEPT !.mMaxX = Some(NINF)]
                     [] call[t].k = 1 -> [@ EXCEPT !.mMaxY = Some(NINF)]
                     [] call[t].k = 2 -> [@ EXCEPT !.mMinX = Some(INF)]
                     [] call[t].k = 3 -> [@ EXCEPT !.mMinY = Some(INF)]]
    /\ pc' = [pc EXCEPT ![t] = IF call[t].k = 3 THEN "scan" ELSE "init"]
    /\ call' = [call EXCEPT ![t].k = IF call[t].k = 3 THEN 1 ELSE @ + 1]
    /\ UNCHANGED first

\* a turn of the loop that leaves the minima alone
ScanPointMaxOnly(t) ==
    /\ pc[t] = "scan"
    /\ call[t].k <= Len(feat[1].points)
    /\ feat' = [feat EXCEPT ![1] =
                   [@ EXCEPT !.mMaxX = Some(Max2(@[1], feat[1].points[call[t].k][1])),
                             !.mMaxY = Some(Max2(@[1], feat[1].points[call[t].k][2]))]]
    /\ call' = [call EXCEPT ![t].k = @ + 1]
    /\ UNCHANGED <<pc, first>>

\* One turn of "for p in self.points", on the fields as they are now
ScanPoint(t) ==
    /\ pc[t] = "scan"
    /\ call[t].k <= Len(feat[1].points)
    /\ feat' = [feat EXCEPT ![1] =
                   [@ EXCEPT !.mMaxX = Some(ScanExtents(<<feat[1].points[call[t].k]>>, 1, ExtentsOf(feat[1]))[1]),
                             !.mMaxY = Some(ScanExtents(<<feat[1].points[call[t].k]>>, 1, ExtentsOf(feat[1]))[2]),
                             !.mMinX = Some(ScanExtents(<<feat[1].points[call[t].k]>>, 1, ExtentsOf(feat[1]))[3]),
                             !.mMinY = Some(ScanExtents(<<feat[1].points[call[t].k]>>, 1, ExtentsOf(feat[1]))[4])]]
    /\ call' = [call EXCEPT ![t].k = @ + 1]
    /\ UNCHANGED <<pc, first>>

\* self.boundingBox = [...] after the loop, from the fields as they are now
BuildBox(t) ==
    /\ pc[t] = "scan"
    /\ call[t].k > Len(feat[1].points)
    /\ feat' = [feat EXCEPT ![1] = WithExtents(@, ExtentsOf(@))]
    /\ pc' = [pc EXCEPT ![t] = "read"]
    /\ UNCHANGED <<call, first>>

\* return self.mMinX and alike: the accessor op returns the fields as they
\* are now
Read(t, op) ==
    /\ pc[t] = "read"
    /\ call' = [call EXCEPT ![t] =
                   Local(op, 0, AccessorValue(op, feat[1]),
                         \E u \in DOMAIN pc : u # t /\ pc[u] \in {"init", "scan"})]
    /\ pc' = [pc EXCEPT ![t] = "returned"]
    /\ UNCHANGED <<feat, first>>

-----------------------------------------------------------------------------
(* The specifications *)

\* The caller is between two calls
Idle == pc = "idle"

\* No call has been made on the Features fs
Fresh(fs) ==
    /\ feat = fs
    /\ pc = "idle"
    /\ call = NoCall
    /\ first = [i \in DOMAIN fs |-> None]

\* 1. _pointInsidePolygon alone, on polygons and points of the caller's choice
RectangleOf(x0, y0, x1, y1) == << <<x0, y0>>, <<x0, y1>>, <<x1, y1>>, <<x1, y0>> >>
Rectangles ==
    {RectangleOf(a[1], a[2], b[1], b[2]) :
        <<a, b>> \in {q \in Grid \X Grid : q[1][1] < q[2][1] /\ q[1][2] < q[2][2]}}
\* the square [(0,0),(0,10),(10,10),(10,0)]
ExampleSquare == RectangleOf(0, 0, 10 * Unit, 10 * Unit)
Polygons == Rectangles \cup {ExampleSquare}
\* the points of the grid and of the ring around it, and (5,5), (15,5)
WideCoord == (0 - (MaxC + 1)) .. (MaxC + 1)
TestPoints ==
    (WideCoord \X WideCoord) \cup {<<5 * Unit, 5 * Unit>>, <<15 * Unit, 5 * Unit>>}

InitPolygon == Fresh(<<>>)
NextPolygon ==
    \/ Idle /\ \E point \in TestPoints, polygon \in Polygons :
               CallPointInsidePolygon(point, polygon)
    \/ Idle /\ \E point \in TestPoints, polygon \in SeqUpTo(Pool, MaxPts + 1) :
               CallPointInsidePolygon(point, polygon)
    \/ Return
SpecPolygon == InitPolygon /\ [][NextPolygon]_vars

\* 2. One Feature with any points of the grid: the extents, the sizes, the
\*    directions
InitExtents == \E ps \in PointLists \cup {ExamplePoints} : Fresh(<<NewFeature(ps)>>)
NextExtents ==
    \/ Idle /\ \E i \in Ids, op \in Accessors : CallAccessor(i, op)
    \/ Idle /\ \E i \in Ids : CallBoundingBox(i)
    \/ Idle /\ \E i \in Ids, op \in {"width", "height", "area"} : CallSize(i, op)
    \/ Idle /\ \E i \in Ids, op \in Directions, arg \in NumberArgs :
               CallPredicate(i, op, arg)
    \/ Idle /\ \E i \in Ids, op \in Directions, arg \in {TupleOf(<<0, 0>>)} :
               CallPredicate(i, op, arg)
    \/ Idle /\ \E i \in Ids, op \in Directions, arg \in {ListOfPoints(TriangleAround)} :
               CallPredicate(i, op, arg)
    \/ Return
SpecExtents == InitExtents /\ [][NextExtents]_vars

\* 3. One Feature against the regions that are not Features
InitRegion == \E ps \in PoolLists : Fresh(<<NewFeature(ps)>>)
NextRegion ==
    \/ Idle /\ \E i \in Ids : CallAccessor(i, "extents")
    \/ Idle /\ \E i \in Ids, op \in Relations, arg \in TupleArgs :
               CallPredicate(i, op, arg)
    \/ Idle /\ \E i \in Ids, op \in Relations, arg \in PolygonArgs :
               CallPredicate(i, op, arg)
    \/ Return
SpecRegion == InitRegion /\ [][NextRegion]_vars

\* 4. Two Features: feat[1] asked about feat[2]
InitPair ==
    \E ps \in PoolLists, qs \in PoolLists :
        Fresh(<<NewFeature(ps), NewFeature(qs)>>)
NextPair ==
    \/ Idle /\ \E i \in Ids : CallAccessor(i, "extents")
    \/ Idle /\ \E op \in Relations \cup Directions : CallPredicate(1, op, FeatureRef(2))
    \/ Return
SpecPair == InitPair /\ [][NextPair]_vars

\* 5. One Feature against boxes
InitBox == \E ps \in PoolLists : Fresh(<<NewFeature(ps)>>)
NextBox ==
    \/ Idle /\ \E i \in Ids : CallAccessor(i, "extents")
    \/ Idle /\ \E i \in Ids, op \in {"contains", "overlaps", "isContainedWithin"},
               arg \in BoxArgs :
               CallPredicate(i, op, arg)
    \/ Return
SpecBox == InitBox /\ [][NextBox]_vars

\* 6. A FeatureSet: sorting, filtering, distances
SetPoints == {<<>>, << <<0, 0>>, <<MaxC, MaxC>> >>}
Members == {Member(ps, k) : ps \in SetPoints, k \in 0 .. MaxC}
\* three Features of areas 30, 10, 20
ExampleSet ==
    << Member(<< <<0, 0>>, <<30 * Unit, 1 * Unit>> >>, 0),
       Member(<< <<0, 0>>, <<10 * Unit, 1 * Unit>> >>, 0),
       Member(<< <<0, 0>>, <<5 * Unit, 4 * Unit>> >>, 0) >>
InitSet == \E fs \in SeqUpTo(Members, MaxSet) \cup {ExampleSet} : Fresh(fs)
NextSet ==
    \/ Idle /\ \E op \in {"sortArea", "sortLength"} : CallSort(op, NumberOf(0))
    \/ Idle /\ \E point \in SortPoints : CallSort("sortDistance", TupleOf(point))
    \/ Idle /\ \E color \in SortColors : CallSort("sortColorDistance", TupleOf(color))
    \/ Idle /\ \E theta \in SortAngles : CallSort("sortAngle", NumberOf(theta))
    \/ Idle /\ \E point \in SortPoints : CallSetDistanceFrom(point)
    \/ Idle /\ \E mask \in Masks, legacy \in BOOLEAN : CallFilter(mask, legacy)
    \/ Idle /\ \E op \in FilterOps, region \in SetRegions : CallFilterRegion(op, region)
    \/ Idle /\ \E op \in {"above", "below", "left", "right"} :
               CallFilterRegion(op, NumberOf(0))
    \/ Return
SpecSet == InitSet /\ [][NextSet]_vars

\* 7. One Feature whose points are assigned anew between the queries
NextStale ==
    \/ Idle /\ \E i \in Ids, op \in Accessors : CallAccessor(i, op)
    \/ Idle /\ \E i \in Ids, ps \in PoolLists : AssignPoints(i, ps)
    \/ Return
SpecStale == InitBox /\ [][NextStale]_vars

\* 8. Threads that query one Feature at the same time.  extents() returns
\*    the four fields and minX() one of them; maxX(), minY() and maxY() read
\*    the other fields in the same way.
InitRace ==
    \E ps \in SeqUpTo({<<0, 0>>, <<MaxC, MaxC>>}, MaxPts) :
        /\ feat = <<NewFeature(ps)>>
        /\ pc = [t \in 1 .. MaxThreads |-> "idle"]
        /\ call = [t \in 1 .. MaxThreads |-> Local("none", 0, 0, FALSE)]
        /\ first = <<None>>
NextRace ==
    \/ \E t \in 1 .. MaxThreads : Enter(t)
    \/ \E t \in 1 .. MaxThreads : Sentinel(t)
    \/ \E t \in 1 .. MaxThreads : ScanPoint(t)
    \/ \E t \in 1 .. MaxThreads : BuildBox(t)
    \/ \E t \in 1 .. MaxThreads, op \in {"extents", "minX"} : Read(t, op)
SpecRace == InitRace /\ [][NextRace]_vars

-----------------------------------------------------------------------------
(* The properties *)

\* The extents of a list of points, over the set of its points
XsOf(ps) == {ps[k][1] : k \in DOMAIN ps}
YsOf(ps) == {ps[k][2] : k \in DOMAIN ps}
Greatest(S) == IF S = {} THEN NINF ELSE CHOOSE m \in S : \A v \in S : v <= m
Least(S) == IF S = {} THEN INF ELSE CHOOSE m \in S : \A v \in S : m <= v

\* A call of one of ops has just ended
Returned(ops) == pc = "returned" /\ call.op \in ops

\* The receiver of the call that ended, before it and after it
Before == call.pre[call.self]
After == feat[call.self]
\* The receiver had run _updateExtents when the call began
WasCached == ~IsNone(Before.mMaxX)

IsPoint(arg) == arg.type = "tuple" /\ arg.elems = "number" /\ Len(arg.v) = 2
IsCircle(arg) == arg.type = "tuple" /\ arg.elems = "number" /\ Len(arg.v) = 3
IsBox(arg) == arg.type = "tuple" /\ arg.elems = "number" /\ Len(arg.v) = 4

\* The rectangle r (in bounding-box order) has p strictly inside, outside
StrictlyInside(p, r) ==
    r[1][1] < p[1] /\ p[1] < r[3][1] /\ r[1][2] < p[2] /\ p[2] < r[3][2]
StrictlyOutside(p, r) ==
    p[1] < r[1][1] \/ p[1] > r[3][1] \/ p[2] < r[1][2] \/ p[2] > r[3][2]

\* C1: _pointInsidePolygon on a rectangle given in bounding-box order (the
\* square (0,0)-(10,10) among them) returns true for every point strictly
\* inside it and false for every point strictly outside it.
C1_RectangleClassified ==
    (Returned({"_pointInsidePolygon"}) /\ call.arg.polygon \in Polygons) =>
        /\ StrictlyInside(call.arg.point, call.arg.polygon) => call.out = "True"
        /\ StrictlyOutside(call.arg.point, call.arg.polygon) => call.out = "False"

\* the point (5,5) against the square (0,0)-(10,10): the call raises
C1_ExampleRaises ==
    /\ Returned({"_pointInsidePolygon"})
    /\ call.arg.polygon = ExampleSquare
    /\ call.arg.point = <<5 * Unit, 5 * Unit>>
    /\ call.out = "ZeroDivisionError"

\* C2: every relational predicate called with a point, a circle or a box
\* returns a boolean, whether or not the extents of the Feature were
\* queried before.
C2_PredicatesTotal ==
    (Returned(Relations) /\ call.arg.type = "tuple" /\ call.arg.elems = "number")
        => call.out \in {"True", "False"}

\* contains((x, y)) on a Feature whose extents were never queried raises
C2_FreshRaises ==
    /\ Returned({"contains"})
    /\ IsPoint(call.arg)
    /\ ~WasCached
    /\ call.out = "TypeError"

\* The bounding box of the points as strictly encloses that of the points bs
StrictlyEncloses(as, bs) ==
    /\ Len(as) > 0
    /\ Len(bs) > 0
    /\ Least(XsOf(as)) < Least(XsOf(bs))
    /\ Greatest(XsOf(bs)) < Greatest(XsOf(as))
    /\ Least(YsOf(as)) < Least(YsOf(bs))
    /\ Greatest(YsOf(bs)) < Greatest(YsOf(as))

\* C3: when the bounding box of A strictly encloses that of B, A.contains(B)
\* and B.isContainedWithin(A) are true and B.contains(A) is false.  (The
\* calls are made on feat[1] with feat[2] as the argument.)
C3_EnclosingContains ==
    (pc = "returned" /\ call.arg.type = "Feature") =>
        /\ (call.op = "contains" /\ StrictlyEncloses(feat[1].points, feat[2].points))
              => call.out = "True"
        /\ (call.op = "isContainedWithin"
              /\ StrictlyEncloses(feat[2].points, feat[1].points))
              => call.out = "True"
        /\ (call.op = "contains" /\ StrictlyEncloses(feat[2].points, feat[1].points))
              => call.out = "False"

\* A.contains(B), A never queried and its box strictly around that of B,
\* raises
C3_FreshRaises ==
    /\ Returned({"contains"})
    /\ call.arg.type = "Feature"
    /\ StrictlyEncloses(feat[1].points, feat[2].points)
    /\ ~WasCached
    /\ call.out = "TypeError"

\* What an accessor returns given e = extents() = <<maxX, maxY, minX, minY>>
Projection(op, e) ==
    CASE op = "extents" -> e
      [] op = "minX" -> e[3]
      [] op = "maxX" -> e[1]
      [] op = "minY" -> e[4]
      [] op = "maxY" -> e[2]
      [] op = "topLeftCorner" -> <<e[3], e[4]>>
      [] op = "bottomRightCorner" -> <<e[1], e[2]>>
      [] op = "bottomLeftCorner" -> <<e[3], e[2]>>
      [] op = "topRightCorner" -> <<e[1], e[4]>>

\* C4: every extents(), minX() ... or corner query on a Feature returns what
\* the first such query on it returned, and the loop of _updateExtents over
\* points has run at most once on each Feature, empty points included.
C4_ExtentsMemoized ==
    /\ \A i \in Ids : feat[i].scans <= 1
    /\ Returned(Accessors) =>
          /\ ~IsNone(first[call.self])
          /\ call.val = Projection(call.op, first[call.self][1])

\* a second query, on a Feature without points, that did not scan again
C4_Witness ==
    /\ Returned({"extents"})
    /\ WasCached
    /\ Len(After.points) = 0
    /\ After.scans = 1
    /\ call.val = first[call.self][1]

\* C5: with points, width() is max x - min x, height() is max y - min y,
\* area() is their product, topLeftCorner() is (min x, min y) and
\* bottomRightCorner() is (max x, max y); for [(0,0),(0,4),(4,4),(4,0)] these
\* are 4, 4, 16, (0,0) and (4,4).
C5_SizesAndCorners ==
    (pc = "returned" /\ call.self = 1 /\ Len(feat[1].points) > 0) =>
        LET ps == feat[1].points
            w == Greatest(XsOf(ps)) - Least(XsOf(ps))
            h == Greatest(YsOf(ps)) - Least(YsOf(ps))
        IN /\ call.op = "width" => call.val = w
           /\ call.op = "height" => call.val = h
           /\ call.op = "area" => call.val = w * h
           /\ call.op = "topLeftCorner"
                 => call.val = <<Least(XsOf(ps)), Least(YsOf(ps))>>
           /\ call.op = "bottomRightCorner"
                 => call.val = <<Greatest(XsOf(ps)), Greatest(YsOf(ps))>>
           /\ ps = ExamplePoints =>
                 /\ call.op \in {"width", "height"} => call.val = 4 * Unit
                 /\ call.op = "area" => call.val = 16 * Unit * Unit
                 /\ call.op = "topLeftCorner" => call.val = <<0, 0>>
                 /\ call.op = "bottomRightCorner" => call.val = <<4 * Unit, 4 * Unit>>

\* area() of the example is 16
C5_Witness ==
    /\ Returned({"area"})
    /\ After.points = ExamplePoints
    /\ call.val = 16 * Unit * Unit

\* C6: without points, width() and height() return 1 (one pixel) and area()
\* returns 1 (one square pixel), and extents(), the corner accessors and
\* above, below, left, right do not raise: the extents are
\* (-inf, -inf, inf, inf) and the directions return a boolean or None.
C6_EmptyPoints ==
    (pc = "returned" /\ call.self = 1 /\ Len(feat[1].points) = 0) =>
        /\ call.op \in {"width", "height"} => call.val = Unit
        /\ call.op = "area" => call.val = Unit * Unit
        /\ call.op \in Accessors =>
              /\ call.out = "ok"
              /\ call.val = Projection(call.op, <<NINF, NINF, INF, INF>>)
        /\ call.op \in Directions => call.out \in {"True", "False", "None"}

\* height() of a Feature without points
C6_Witness ==
    /\ Returned({"height"})
    /\ Len(After.points) = 0
    /\ call.val = Unit

\* The corners of the bounding box of the points ps
CornersOf(ps) ==
    {Least(XsOf(ps)), Greatest(XsOf(ps))} \X {Least(YsOf(ps)), Greatest(YsOf(ps))}

\* C7: contains((x, y, r)) returns true if and only if every corner of the
\* bounding box of the Feature is within r of (x, y).
C7_ContainsCircle ==
    (Returned({"contains"}) /\ IsCircle(call.arg)) =>
        (call.out = "True" <=>
            \A c \in CornersOf(After.points) :
                Le(SquaredDistance(call.arg.v[1], call.arg.v[2], c),
                   call.arg.v[3] * call.arg.v[3]))

\* with the corners cached and all of them within r, contains returns false
C7_AllWithinIsFalse ==
    /\ Returned({"contains"})
    /\ IsCircle(call.arg)
    /\ WasCached
    /\ Len(After.points) > 0
    /\ \A c \in CornersOf(After.points) :
          Lt(SquaredDistance(call.arg.v[1], call.arg.v[2], c),
             call.arg.v[3] * call.arg.v[3])
    /\ call.out = "False"

BoxHolds(box, ps) ==
    /\ Least(XsOf(ps)) >= box[1]
    /\ Greatest(XsOf(ps)) <= box[1] + box[3]
    /\ Least(YsOf(ps)) >= box[2]
    /\ Greatest(YsOf(ps)) <= box[2] + box[4]

C10_OverlapsBox ==
    (Returned({"overlaps"}) /\ IsBox(call.arg)) =>
        call.out = PyBool(\E k \in 1 .. 4 :
            Contains(call.pre, call.self, TupleOf(BoxCorners(call.arg.v)[k])).out
                = "True")

\* overlaps(box) raises ZeroDivisionError although contains is true of one
\* of the corners
C10_RaisesThoughContained ==
    /\ Returned({"overlaps"})
    /\ IsBox(call.arg)
    /\ call.out = "ZeroDivisionError"
    /\ \E k \in 1 .. 4 :
          Contains(call.pre, call.self, TupleOf(BoxCorners(call.arg.v)[k])).out
              = "True"

\* C11: against another Feature, above is maxY < other minY, below is
\* minY > other maxY, left is maxX < other minX and right is minX > other
\* maxX, the extents being those of the points of the two Features.
C11_DirectionsCompareExtents ==
    (Returned(Directions) /\ call.arg.type = "Feature") =>
        LET ps == feat[call.self].points
            qs == feat[call.arg.v].points
        IN /\ call.op = "above"
                 => call.out = PyBool(Greatest(YsOf(ps)) < Least(YsOf(qs)))
           /\ call.op = "below"
                 => call.out = PyBool(Least(YsOf(ps)) > Greatest(YsOf(qs)))
           /\ call.op = "left"
                 => call.out = PyBool(Greatest(XsOf(ps)) < Least(XsOf(qs)))
           /\ call.op = "right"
                 => call.out = PyBool(Least(XsOf(ps)) > Greatest(XsOf(qs)))

\* left() is true of two Features with points, neither queried before
C11_Witness ==
    /\ Returned({"left"})
    /\ call.arg.type = "Feature"
    /\ IsNone(call.pre[1].mMaxX)
    /\ IsNone(call.pre[2].mMinX)
    /\ Len(feat[1].points) > 1
    /\ Len(feat[2].points) > 1
    /\ call.out = "True"

C17_PredicatesPure ==
    Returned(Directions \cup Relations) =>
        \A i \in Ids :
            /\ feat[i].points = call.pre[i].points
            /\ feat[i].mMaxX = call.pre[i].mMaxX
            /\ feat[i].mMaxY = call.pre[i].mMaxY
            /\ feat[i].mMinX = call.pre[i].mMinX
            /\ feat[i].mMinY = call.pre[i].mMinY
            /\ feat[i].boundingBox = call.pre[i].boundingBox

\* contains(B) returns a boolean on a Feature on which no accessor was ever
\* called: an earlier predicate stored the corners, and without it the same
\* call raises
C17_LaterQueryDiffers ==
    /\ Returned({"contains"})
    /\ call.arg.type = "Feature"
    /\ Len(feat[call.arg.v].points) > 0
    /\ IsNone(first[call.self])
    /\ WasCached
    /\ call.out \in {"True", "False"}
    /\ Contains(<<NewFeature(feat[1].points), NewFeature(feat[2].points)>>,
                call.self, call.arg).out = "TypeError"

\* C19 as written: extents() returns (minX, minY, maxX, maxY).
C19_ExtentsMinFirst ==
    Returned({"extents"}) =>
        call.val = <<Least(XsOf(After.points)), Least(YsOf(After.points)),
                     Greatest(XsOf(After.points)), Greatest(YsOf(After.points))>>

\* C19: extents() returns the four cached extents in the order
\* (maxX, maxY, minX, minY).
C19_ExtentsMaxFirst ==
    Returned({"extents"}) =>
        call.val = <<Greatest(XsOf(After.points)), Greatest(YsOf(After.points)),
                     Least(XsOf(After.points)), Least(YsOf(After.points))>>

\* extents() of a Feature whose box is not a single point
C19_Witness ==
    /\ Returned({"extents"})
    /\ Len(After.points) > 1
    /\ call.val[1] > call.val[3]
    /\ call.val[2] > call.val[4]

\* C20: every call of boundingBox() returns the corners
\* [(minX,minY), (minX,maxY), (maxX,maxY), (maxX,minY)].
C20_BoundingBoxEveryCall ==
    Returned({"boundingBox"}) =>
        /\ call.out = "ok"
        /\ call.val =
              << <<Least(XsOf(After.points)), Least(YsOf(After.points))>>,
                 <<Least(XsOf(After.points)), Greatest(YsOf(After.points))>>,
                 <<Greatest(XsOf(After.points)), Greatest(YsOf(After.points))>>,
                 <<Greatest(XsOf(After.points)), Least(YsOf(After.points))>> >>

\* boundingBox() called once the corners are stored raises
C20_LaterCallRaises ==
    /\ Returned({"boundingBox"})
    /\ WasCached
    /\ call.out = "TypeError"

\* the first call of boundingBox() returns the corners in the order claimed
C20_FirstCallReturns ==
    (Returned({"boundingBox"}) /\ ~WasCached) =>
        /\ call.out = "ok"
        /\ call.val[1] = <<Least(XsOf(After.points)), Least(YsOf(After.points))>>
        /\ call.val[3] = <<Greatest(XsOf(After.points)), Greatest(YsOf(After.points))>>

\* The key that the sort that ended gave the j-th Feature of the set
KeyAt(j) == SortKey(call.op, feat[j], call.arg.v)
\* s lists every position of the set once
IsPermutation(s) ==
    /\ Len(s) = Len(feat)
    /\ {s[a] : a \in DOMAIN s} = DOMAIN feat

C13_ExampleSorted ==
    /\ Returned({"sortArea"})
    /\ feat = ExampleSet
    /\ call.val = <<2, 3, 1>>


\* C15: filter(mask) with a boolean mask as long as the receiver returns a
\* new collection holding exactly the elements whose mask entry is true, in
\* the receiver's order, and leaves the receiver as it was.
C15_FilterKeepsTrue ==
    (Returned({"filter"}) /\ Len(call.arg.v) = Len(call.pre)) =>
        /\ call.out = "ok"
        /\ \A a, b \in DOMAIN call.val : a < b => call.val[a] < call.val[b]
        /\ {call.val[a] : a \in DOMAIN call.val}
               = {i \in DOMAIN feat : call.arg.v[i]}
        /\ feat = call.pre
\* a mask of the receiver's length that keeps two elements and drops one
C15_Witness ==
    /\ Returned({"filter"})
    /\ Len(call.arg.v) = Len(feat)
    /\ Len(call.val) = 2
    /\ \E i \in DOMAIN feat : ~call.arg.v[i]

\* C16: filter(mask) with a mask whose length is not the receiver's signals
\* an invalid argument and returns no collection.
C16_FilterRejectsLength ==
    (Returned({"filter"}) /\ Len(call.arg.v) # Len(call.pre)) =>
        call.out # "ok"
\* a mask shorter than the receiver, and a collection returned
C16_ShortMaskAccepted ==
    /\ Returned({"filter"})
    /\ Len(call.arg.v) < Len(feat)
    /\ call.out = "ok"
    /\ call.val = <<1>>
\* the same call where the array index refuses the mask
C16_ShortMaskRefused ==
    /\ Returned({"filter"})
    /\ Len(call.arg.v) < Len(feat)
    /\ call.out = "IndexError"


\* The i-th Feature of the receiver passes the predicate of the filter that ended
Passes(i) ==
    Predicate(FilterPredicate(call.op), call.pre, i, call.arg).out = "True"
\* val lists, in the receiver's order, the Features that pass
KeepsThosePassing ==
    /\ \A a, b \in DOMAIN call.val : a < b => call.val[a] < call.val[b]
    /\ {call.val[a] : a \in DOMAIN call.val} = {i \in DOMAIN feat : Passes(i)}
\* The receiver holds the Features it held, in the order it held them
SameMembers ==
    /\ Len(feat) = Len(call.pre)
    /\ \A i \in DOMAIN feat :
          /\ feat[i].points = call.pre[i].points
          /\ feat[i].x = call.pre[i].x
          /\ feat[i].y = call.pre[i].y

\* C14: inside, outside, overlaps, above, below, left and right each return
\* a new collection that holds exactly the elements of the receiver for
\* which the Feature predicate of the filter is true for the region, in the
\* receiver's order, and leave the receiver as it was.
C14_FiltersFollowPredicate ==
    Returned(FilterOps) =>
        /\ call.out = "ok"
        /\ KeepsThosePassing
        /\ SameMembers
\* inside(circle) on Features fresh from their detector: the predicate of
\* the first one raises and no collection comes back
C14_FilterRaises ==
    /\ Returned({"inside"})
    /\ IsCircle(call.arg)
    /\ Len(feat) > 0
    /\ call.out = "TypeError"
\* what holds of the filters: a filter that returns keeps those that pass
C14_KeptWhenReturned ==
    (Returned(FilterOps) /\ call.out = "ok") =>
        KeepsThosePassing /\ SameMembers
\* a filter that returns, keeps one Feature and drops another
C14_SomeKept ==
    /\ Returned(FilterOps)
    /\ call.out = "ok"
    /\ Len(call.val) > 0
    /\ Len(call.val) < Len(feat)


\* distanceFrom was called with no point
NoPointGiven == call.arg.v = DefaultPoint

\* C18: FeatureSet.distanceFrom() with no point measures every element from
\* the center of the image (width/2, height/2), the default reference of
\* Feature.distanceFrom() and of sortDistance().
C18_DefaultIsCenter ==
    (Returned({"distanceFrom"}) /\ NoPointGiven) =>
        /\ call.out = "ok"
        /\ Len(call.val) = Len(feat)
        /\ \A i \in DOMAIN call.val :
              /\ call.val[i] = SquaredEuclidean(<<feat[i].x, feat[i].y>>,
                                   <<(ImageSize[1] * Unit) \div 2,
                                     (ImageSize[2] * Unit) \div 2>>)
              /\ call.val[i] = DistanceFrom(feat[i], DefaultPoint)
\* distanceFrom() measured from the far corner (width, height) of the
\* image, which is not what Feature.distanceFrom() gives
C18_MeasuredFromCorner ==
    /\ Returned({"distanceFrom"})
    /\ NoPointGiven
    /\ call.out = "ok"
    /\ call.val[1] = SquaredEuclidean(<<feat[1].x, feat[1].y>>,
                         <<ImageSize[1] * Unit, ImageSize[2] * Unit>>)
    /\ call.val[1] # DistanceFrom(feat[1], DefaultPoint)
\* what holds: with a point given, the set and its Features measure alike
C18_GivenPointAgrees ==
    (Returned({"distanceFrom"}) /\ ~NoPointGiven /\ Len(feat) > 0) =>
        /\ call.out = "ok"
        /\ \A i \in DOMAIN call.val :
              call.val[i] = DistanceFrom(feat[i], call.arg.v)


\* The extents <<maxX, maxY, minX, minY>> of the points ps
ExtentsOfPoints(ps) ==
    <<Greatest(XsOf(ps)), Greatest(YsOf(ps)), Least(XsOf(ps)), Least(YsOf(ps))>>
\* The fields that _updateExtents fills
CacheOf(f) == <<f.mMaxX, f.mMaxY, f.mMinX, f.mMinY, f.boundingBox>>

\* The query that ended returned what the first query fixed, and the first
\* query fixed the extents of the points it found
C21_QueriesReturnFirst ==
    Returned(Accessors) =>
        /\ ~IsNone(first[call.self])
        /\ call.val = Projection(call.op, first[call.self][1])
        /\ After.boundingBox =
               ListOf(<<Projection("topLeftCorner", first[call.self][1]),
                        Projection("bottomLeftCorner", first[call.self][1]),
                        Projection("bottomRightCorner", first[call.self][1]),
                        Projection("topRightCorner", first[call.self][1])>>)
        /\ ~WasCached => first[call.self][1] = ExtentsOfPoints(Before.points)
\* No step, an assignment of points included, changes extents once computed
C21_CacheKept ==
    \A i \in DOMAIN feat :
        (i \in DOMAIN feat' /\ ~IsNone(feat[i].mMaxX)) =>
            CacheOf(feat'[i]) = CacheOf(feat[i])

\* C21: once the extents of a Feature are computed they are never
\* invalidated: after points is assigned anew, extents(), minX() ... maxY(),
\* the corners and the cached bounding box are still those of the points
\* present at the first computation.
C21_NeverInvalidated ==
    /\ [](C21_QueriesReturnFirst)
    /\ [][C21_CacheKept]_vars
\* a query that returned extents that are not those of the points the
\* Feature has now
C21_Witness ==
    /\ Returned({"extents"})
    /\ WasCached
    /\ call.val = first[call.self][1]
    /\ call.val # ExtentsOfPoints(After.points)
    /\ Len(After.points) > 0


\* C22: _pointInsidePolygon given a polygon of fewer than 3 vertices reports
\* the point as outside (returns false, with a warning) and does not raise,
\* whatever the point.
C22_ShortPolygonOutside ==
    (Returned({"_pointInsidePolygon"}) /\ Len(call.arg.polygon) < 3) =>
        /\ call.out = "False"
        /\ call.val = 1
\* two vertices and a point between them, on an edge whose quotient would
\* divide by zero were the loop run
C22_Witness ==
    /\ Returned({"_pointInsidePolygon"})
    /\ call.arg.polygon = << <<0 - MaxC, 0>>, <<0, MaxC>> >>
    /\ call.arg.point = <<0 - MaxC, MaxC>>
    /\ call.out = "False"


ReturnedWrong(t) ==
    /\ pc[t] = "returned"
    /\ call[t].val # Projection(call[t].op, ExtentsOfPoints(feat[1].points))

RayCrosses(p, a, b) ==
    /\ Min2(a[2], b[2]) < p[2]
    /\ p[2] <= Max2(a[2], b[2])
    /\ IF a[1] = b[1] THEN p[1] <= a[1]
       ELSE IF b[2] > a[2]
       THEN (p[1] - a[1]) * (b[2] - a[2]) <= (p[2] - a[2]) * (b[1] - a[1])
       ELSE (p[1] - a[1]) * (b[2] - a[2]) >= (p[2] - a[2]) * (b[1] - a[1])
\* The number of edges of the closed polygon that the ray crosses is odd
OddCrossings(p, polygon) ==
    Cardinality({k \in DOMAIN polygon :
                    RayCrosses(p, polygon[k], polygon[(k % Len(polygon)) + 1])}) % 2 = 1

\* C25: for a polygon of at least 3 vertices and any point,
\* _pointInsidePolygon counts the edges whose y-span holds the point's y
\* (min y < y <= max y) and whose crossing with the line of that y is at or
\* after the point's x (a vertical edge by its x alone), and returns inside
\* iff the count is odd: the reference ray-casting parity test, slanted
\* edges included.
C25_EqualsRayCasting ==
    (Returned({"_pointInsidePolygon"}) /\ Len(call.arg.polygon) >= 3) =>
        call.out = PyBool(OddCrossings(call.arg.point, call.arg.polygon))
\* a triangle with a slanted edge and a point it holds by the reference
\* test, which the method reports as outside without raising
C25_SlantedEdgeMiscounted ==
    /\ Returned({"_pointInsidePolygon"})
    /\ Len(call.arg.polygon) = 3
    /\ OddCrossings(call.arg.point, call.arg.polygon)
    /\ call.out = "False"
\* the same call raising instead
C25_SlantedEdgeRaises ==
    /\ Returned({"_pointInsidePolygon"})
    /\ Len(call.arg.polygon) = 3
    /\ call.out = "ZeroDivisionError"


\* The other of inside and outside
Opposite(op) == IF op = "inside" THEN "outside" ELSE "inside"
\* What the opposite filter returns for the same receiver and region
OppositeResult == FilterRegion(Opposite(call.op), call.pre, call.arg)
\* The lists of positions a and b share nothing and cover the receiver
Partition(a, b) ==
    /\ {a[k] : k \in DOMAIN a} \cap {b[k] : k \in DOMAIN b} = {}
    /\ {a[k] : k \in DOMAIN a} \cup {b[k] : k \in DOMAIN b} = DOMAIN feat
    /\ Len(a) + Len(b) = Len(feat)

\* C26: for every collection and every region, inside(region) and
\* outside(region) partition the collection, each element being in exactly
\* one of the two results, since isNotContainedWithin negates
\* isContainedWithin; for a region of no recognized shape inside is empty
\* and outside is the whole collection.
C26_InsideOutsidePartition ==
    Returned({"inside", "outside"}) =>
        /\ call.out = "ok"
        /\ OppositeResult.out = "ok"
        /\ Partition(call.val, OppositeResult.val)
        /\ (call.op = "inside" /\ IsPoint(call.arg)) =>
               call.val = <<>> /\ Len(OppositeResult.val) = Len(feat)
\* outside(circle) on Features fresh from their detector raises, and so
\* does inside(circle): there are no two results
C26_NeitherReturns ==
    /\ Returned({"outside"})
    /\ IsCircle(call.arg)
    /\ Len(feat) > 0
    /\ call.out = "TypeError"
    /\ OppositeResult.out = "TypeError"
\* what holds: when both filters return, their results partition the
\* collection, and a region of no recognized shape puts every element outside
C26_PartitionWhenReturned ==
    (Returned({"inside", "outside"}) /\ call.out = "ok") =>
        /\ OppositeResult.out = "ok"
        /\ Partition(call.val, OppositeResult.val)
        /\ (call.op = "inside" /\ IsPoint(call.arg)) =>
               call.val = <<>> /\ Len(OppositeResult.val) = Len(feat)
\* inside and outside of a box both return and share the collection
C26_BothNonempty ==
    /\ Returned({"inside"})
    /\ call.out = "ok"
    /\ Len(call.val) > 0
    /\ Len(OppositeResult.val) > 0


\* C27: for every pair of Features F and G, those without points included,
\* the cached extents have minX <= maxX and minY <= maxY, so that F is
\* never both above and below G, and never both left and right of G.
C27_ExtentsOrdered ==
    /\ \A i \in Ids :
          ~IsNone(feat[i].mMaxX) =>
              /\ MinXOf(feat[i]) <= MaxXOf(feat[i])
              /\ MinYOf(feat[i]) <= MaxYOf(feat[i])
    /\ (Returned({"above"}) /\ call.arg.type = "Feature") =>
          ~(call.out = "True" /\ Below(feat, call.self, call.arg).out = "True")
    /\ (Returned({"left"}) /\ call.arg.type = "Feature") =>
          ~(call.out = "True" /\ Right(feat, call.self, call.arg).out = "True")
\* a Feature without points is above the Feature G and below it as well
C27_AboveAndBelow ==
    /\ Returned({"above"})
    /\ call.arg.type = "Feature"
    /\ Len(After.points) = 0
    /\ Len(feat[call.arg.v].points) > 0
    /\ MinYOf(After) = INF
    /\ MaxYOf(After) = NINF
    /\ call.out = "True"
    /\ Below(feat, call.self, call.arg).out = "True"
\* what holds: with points on both sides the extents are ordered and the
\* opposite directions exclude each other
C27_OrderedWithPoints ==
    (Returned({"above", "left"}) /\ call.arg.type = "Feature"
        /\ Len(After.points) > 0 /\ Len(feat[call.arg.v].points) > 0) =>
        /\ MinXOf(After) <= MaxXOf(After)
        /\ MinYOf(After) <= MaxYOf(After)
        /\ ~(call.op = "above" /\ call.out = "True"
             /\ Below(feat, call.self, call.arg).out = "True")
        /\ ~(call.op = "left" /\ call.out = "True"
             /\ Right(feat, call.self, call.arg).out = "True")


\* What A.overlaps(B) returns once A.contains(B) has returned
OverlapsAfter == Overlaps(feat, call.self, call.arg).out

\* C28: for every pair of Features A and B, A.contains(B) implies
\* A.overlaps(B): when every boundary point of B is inside the bounding box
\* of A, a corner of the bounding box of B is inside it too, B without
\* points included.
C28_ContainsImpliesOverlaps ==
    (Returned({"contains"}) /\ call.arg.type = "Feature" /\ call.out = "True") =>
        OverlapsAfter = "True"

\* A and B have both had their extents computed; B has no points, so
\* A.contains(B) is true, and A.overlaps(B) is false: no corner of the
\* bounding box of B, which is made of infinities, is inside that of A
C28_ContainsNotOverlaps ==
    /\ Returned({"contains"})
    /\ call.arg.type = "Feature"
    /\ WasCached
    /\ ~IsNone(feat[call.arg.v].mMaxX)
    /\ Len(After.points) > 0
    /\ Len(feat[call.arg.v].points) = 0
    /\ call.out = "True"
    /\ OverlapsAfter = "False"
\* the same with points in B: every point of B is inside, no corner of its
\* bounding box is
C28_PointsInsideCornersNot ==
    /\ Returned({"contains"})
    /\ call.arg.type = "Feature"
    /\ WasCached
    /\ ~IsNone(feat[call.arg.v].mMaxX)
    /\ Len(feat[call.arg.v].points) > 0
    /\ call.out = "True"
    /\ OverlapsAfter = "False"


=============================================================================
